---- MODULE Spec2Model ----
(***************************************************************************)
(* The cart store of src/store/cart.store.ts: the identity key of a cart   *)
(* line (getItemKey), the lookup of a line (findItemIndex) and the four    *)
(* mutations addItem, removeItem, updateQuantity and clearCart.            *)
(*                                                                         *)
(* Strings are sequences of UTF-16 code units, so that the key is the      *)
(* concatenation the template literal builds and Array.prototype.sort      *)
(* orders names as JavaScript does.  An optional argument is <<>> when it  *)
(* is undefined and <<v>> when it is given.  Prices are in cents.          *)
(*                                                                         *)
(* The store is wrapped in persist({ name: 'cart-storage' }): every set    *)
(* writes the cart to the browser's storage as JSON, and a restart reads   *)
(* it back.                                                                *)
(*                                                                         *)
(* Two components collect the selections for an item and hand them to the  *)
(* cart: the item card of components/ProtectedRoute.tsx (MenuSection with  *)
(* popups, handleAddToOrder) and the item dialog of                        *)
(* components/MenuSection.tsx (ItemModal, canAddToOrder).  `dialog` holds   *)
(* the selections made for one item in one of the two, `outcome` what the  *)
(* latest step did with an attempt to add.                                 *)
(*                                                                         *)
(* An earlier ItemModal (unnamed/part_001) asks for one selection per step *)
(* and keeps the step in `currentStep`; the cart view of the same file     *)
(* (OrderItemComponent) changes a line with its minus, plus and remove     *)
(* buttons.  With two tabs of one browser, `peer` is the cart in the       *)
(* memory of the second tab and `writer` the tab that wrote last.          *)
(***************************************************************************)
EXTENDS Integers, Sequences, FiniteSets, TLC

VARIABLES items, last, storage, writable, dialog, outcome, currentStep, peer, writer

vars == <<items, last, storage, writable, dialog, outcome, currentStep, peer, writer>>

\* ------------------------------------------------------------------ bounds
\* The cart holds at most MaxLines lines and MaxTotal pieces in all.
MaxLines == 2
MaxTotal == 3

\* ----------------------------------------------------------------- strings
\* The separators of the key: ',' inside a list, '-' between the fields.
chComma == 44
chDash == 45

\* The names the calls use: "a", "b", the one name "a,b", and the tokens.
sA == <<97>>
sB == <<98>>
sAcommaB == <<97, chComma, 98>>
sC == <<99>>
sD == <<100>>
sE == <<101>>
sNone == <<110, 111, 110, 101>>
sDefault == <<100, 101, 102, 97, 117, 108, 116>>

\* String(n) of a non-negative integer: its decimal digits.
RECURSIVE NumToStr(_)
NumToStr(n) ==
  IF n < 10 THEN <<48 + n>> ELSE NumToStr(n \div 10) \o <<48 + (n % 10)>>

\* s < t as the default comparator of Array.prototype.sort decides it:
\* by UTF-16 code units, a proper prefix first.
RECURSIVE StrLess(_, _)
StrLess(s, t) ==
  IF t = <<>> THEN FALSE
  ELSE IF s = <<>> THEN TRUE
  ELSE IF Head(s) # Head(t) THEN Head(s) < Head(t)
  ELSE StrLess(Tail(s), Tail(t))

\* One name put into an already sorted list, after its equals (stable).
RECURSIVE InsertSorted(_, _)
InsertSorted(x, sorted) ==
  IF sorted = <<>> THEN <<x>>
  ELSE IF StrLess(x, Head(sorted)) THEN <<x>> \o sorted
  ELSE <<Head(sorted)>> \o InsertSorted(x, Tail(sorted))

\* A sort that leaves the names as they are.
SortNames_Unsorted(names) == names

\* names.sort(): ascending, stable.
RECURSIVE SortNames(_)
SortNames(names) ==
  IF names = <<>> THEN <<>>
  ELSE InsertSorted(names[Len(names)], SortNames(SubSeq(names, 1, Len(names) - 1)))

\* names.join(sep)
RECURSIVE Join(_, _)
Join(names, sep) ==
  IF names = <<>> THEN <<>>
  ELSE IF Len(names) = 1 THEN names[1]
  ELSE names[1] \o sep \o Join(Tail(names), sep)

\* --------------------------------------------------------------- the key
\* `x ? x.name : token` for an optional object with a name.
NameOr(opt, token) == IF opt = <<>> THEN token ELSE opt[1].name

\* `s || token` for an optional string: undefined and '' both give the token.
StrOr(opt, token) == IF opt = <<>> \/ opt[1] = <<>> THEN token ELSE opt[1]

\* `list && list.length > 0 ? list.sort().join(',') : 'none'`
ListKey(list) == IF Len(list) > 0 THEN Join(SortNames(list), <<chComma>>) ELSE sNone

\* A key that leaves the size out.
getItemKey_NoSize(id, selectedSize, selectedIngredients, selectedExtras, selectedPastaType, selectedSauce, selectedPizzaStyle, selectedFriesOption) ==
  Join(<<NumToStr(id), NameOr(selectedFriesOption, sNone), ListKey(selectedIngredients),
         ListKey(selectedExtras), StrOr(selectedPastaType, sNone),
         StrOr(selectedSauce, sNone), NameOr(selectedPizzaStyle, sNone)>>, <<chDash>>)

getItemKey(id, selectedSize, selectedIngredients, selectedExtras, selectedPastaType, selectedSauce, selectedPizzaStyle, selectedFriesOption) ==
  LET sizeKey == NameOr(selectedSize, sDefault)
      friesKey == NameOr(selectedFriesOption, sNone)
      ingredientsKey == ListKey(selectedIngredients)
      extrasKey == ListKey(selectedExtras)
      pastaTypeKey == StrOr(selectedPastaType, sNone)
      sauceKey == StrOr(selectedSauce, sNone)
      styleKey == NameOr(selectedPizzaStyle, sNone)
  IN  NumToStr(id) \o <<chDash>> \o sizeKey \o <<chDash>> \o friesKey
        \o <<chDash>> \o ingredientsKey \o <<chDash>> \o extrasKey
        \o <<chDash>> \o pastaTypeKey \o <<chDash>> \o sauceKey
        \o <<chDash>> \o styleKey

\* The key of a stored line with its two lists passed in each other's place.
LineKey_ListsSwapped(line) ==
  getItemKey(line.menuItem.id, line.selectedSize, line.selectedExtras,
             line.selectedIngredients, line.selectedPastaType, line.selectedSauce,
             line.selectedPizzaStyle, line.selectedFriesOption)

\* The key of a stored line, as every operation computes it.
LineKey(line) ==
  getItemKey(line.menuItem.id, line.selectedSize, line.selectedIngredients,
             line.selectedExtras, line.selectedPastaType, line.selectedSauce,
             line.selectedPizzaStyle, line.selectedFriesOption)

\* The key of the arguments of a call.
SearchKey(b) ==
  getItemKey(b.menuItem.id, b.selectedSize, b.selectedIngredients,
             b.selectedExtras, b.selectedPastaType, b.selectedSauce,
             b.selectedPizzaStyle, b.selectedFriesOption)

\* ------------------------------------------------------------ the store
\* getItemKey sorts the two lists of the line it is given in place.
SortedInPlace(line) ==
  [line EXCEPT !.selectedIngredients = SortNames(@),
               !.selectedExtras = SortNames(@)]

\* items.findIndex(...): the position of the first line whose key is the
\* key of the call, 0 when there is none (positions count from 1 here).
findItemIndex(lines, b) ==
  LET searchKey == SearchKey(b)
      hits == {i \in 1..Len(lines) : LineKey(lines[i]) = searchKey}
  IN  IF hits = {} THEN 0 ELSE CHOOSE i \in hits : \A j \in hits : i <= j

\* Each extra costs 1.50.
ExtraPrice == 150

\* A price that takes the extras only when no size is given.
NewPrice_ExtrasOnlyOnFlat(b) ==
  IF b.selectedSize # <<>> THEN b.selectedSize[1].price
  ELSE b.menuItem.price + Len(b.selectedExtras) * ExtraPrice

\* itemToAdd.price of a new line.
NewPrice(b) ==
  LET base == IF b.selectedSize # <<>> THEN b.selectedSize[1].price
              ELSE b.menuItem.price
      extras == IF Len(b.selectedExtras) > 0
                THEN Len(b.selectedExtras) * ExtraPrice ELSE 0
      style == IF b.selectedPizzaStyle # <<>> /\ b.selectedPizzaStyle[1].price > 0
               THEN b.selectedPizzaStyle[1].price ELSE 0
      fries == IF b.selectedFriesOption # <<>> /\ b.selectedFriesOption[1].price > 0
               THEN b.selectedFriesOption[1].price ELSE 0
  IN  base + extras + style + fries

\* The line addItem pushes.  It holds the caller's two arrays themselves:
\* findIndex has sorted them iff it looked at a line (`searched`).
NewLine(b, searched) ==
  [menuItem |-> [b.menuItem EXCEPT !.price = NewPrice(b)],
   quantity |-> 1,
   selectedSize |-> b.selectedSize,
   selectedFriesOption |-> b.selectedFriesOption,
   selectedIngredients |-> IF searched THEN SortNames(b.selectedIngredients)
                           ELSE b.selectedIngredients,
   selectedExtras |-> IF searched THEN SortNames(b.selectedExtras)
                      ELSE b.selectedExtras,
   selectedPastaType |-> b.selectedPastaType,
   selectedSauce |-> b.selectedSauce,
   selectedPizzaStyle |-> b.selectedPizzaStyle]

\* The two arrays of the caller after a call on the cart `lines`: the
\* callback of findIndex, filter or map computes the key of the arguments
\* for every line it looks at, and getItemKey sorts them in place.
callerLists(lines, b) ==
  [selectedIngredients |-> IF Len(lines) > 0 THEN SortNames(b.selectedIngredients)
                           ELSE b.selectedIngredients,
   selectedExtras |-> IF Len(lines) > 0 THEN SortNames(b.selectedExtras)
                      ELSE b.selectedExtras]

\* A caller's entry that is itself the object whose price addItem sets.
callerItem_Aliased(b, pushed) ==
  IF pushed THEN [b.menuItem EXCEPT !.price = NewPrice(b)] ELSE b.menuItem

\* The caller's catalog entry after an addItem: a new line is built on
\* `{ ...menuItem }`, a copy, whose price alone is assigned; the entry and
\* its sizes are only read.
callerItem(b, pushed) == b.menuItem

\* An addItem that never looks for the line and always pushes.
addItem_AlwaysPush(lines, b) ==
  Append([i \in 1..Len(lines) |-> SortedInPlace(lines[i])], NewLine(b, Len(lines) > 0))

\* An addItem that, on a hit, rebuilds the line from the call.
addItem_Reprice(lines, b) ==
  LET existingItemIndex == findItemIndex(lines, b)
      currentItems == [i \in 1..Len(lines) |-> SortedInPlace(lines[i])]
  IN  IF existingItemIndex > 0
      THEN [currentItems EXCEPT ![existingItemIndex] =
              [NewLine(b, TRUE) EXCEPT !.quantity = lines[existingItemIndex].quantity + 1]]
      ELSE Append(currentItems, NewLine(b, Len(lines) > 0))

\* An addItem that puts a new line in front of the others.
addItem_Prepend(lines, b) ==
  LET existingItemIndex == findItemIndex(lines, b)
      currentItems == [i \in 1..Len(lines) |-> SortedInPlace(lines[i])]
  IN  IF existingItemIndex > 0
      THEN [currentItems EXCEPT ![existingItemIndex].quantity = @ + 1]
      ELSE <<NewLine(b, Len(lines) > 0)>> \o currentItems

addItem(lines, b) ==
  LET existingItemIndex == findItemIndex(lines, b)
      visited == IF existingItemIndex > 0 THEN existingItemIndex ELSE Len(lines)
      currentItems == [i \in 1..Len(lines) |->
                         IF i <= visited THEN SortedInPlace(lines[i]) ELSE lines[i]]
  IN  IF existingItemIndex > 0
      THEN [currentItems EXCEPT ![existingItemIndex].quantity = @ + 1]
      ELSE Append(currentItems, NewLine(b, Len(lines) > 0))

\* items.filter(keep) where every line is looked at, and so sorted in place.
RECURSIVE FilterOut(_, _)
FilterOut(lines, key) ==
  IF lines = <<>> THEN <<>>
  ELSE IF LineKey(Head(lines)) # key
       THEN <<SortedInPlace(Head(lines))>> \o FilterOut(Tail(lines), key)
       ELSE FilterOut(Tail(lines), key)

\* A removeItem that splices at the index findIndex gives: with no line
\* of the key the index is -1, and the last line goes.
removeItem_Splice(lines, b) ==
  IF findItemIndex(lines, b) > 0 \/ lines = <<>>
  THEN FilterOut(lines, SearchKey(b))
  ELSE [i \in 1..(Len(lines) - 1) |-> SortedInPlace(lines[i])]

removeItem(lines, b) == FilterOut(lines, SearchKey(b))

\* An updateQuantity that removes below zero only.
updateQuantity_ZeroKept(lines, quantity, b) ==
  IF quantity < 0
  THEN FilterOut(lines, SearchKey(b))
  ELSE [i \in 1..Len(lines) |->
          IF LineKey(lines[i]) = SearchKey(b)
          THEN [SortedInPlace(lines[i]) EXCEPT !.quantity = quantity]
          ELSE SortedInPlace(lines[i])]

\* An updateQuantity that adds the quantity to the line's.
updateQuantity_Adds(lines, quantity, b) ==
  IF quantity <= 0
  THEN FilterOut(lines, SearchKey(b))
  ELSE [i \in 1..Len(lines) |->
          IF LineKey(lines[i]) = SearchKey(b)
          THEN [SortedInPlace(lines[i]) EXCEPT !.quantity = @ + quantity]
          ELSE SortedInPlace(lines[i])]

\* An updateQuantity that sets whatever quantity it is given.
updateQuantity_NoFloor(lines, quantity, b) ==
  [i \in 1..Len(lines) |->
     IF LineKey(lines[i]) = SearchKey(b)
     THEN [SortedInPlace(lines[i]) EXCEPT !.quantity = quantity]
     ELSE SortedInPlace(lines[i])]

\* An updateQuantity that, on a hit, sets the quantity of every line.
updateQuantity_EveryLine(lines, quantity, b) ==
  IF quantity <= 0
  THEN FilterOut(lines, SearchKey(b))
  ELSE [i \in 1..Len(lines) |->
          IF findItemIndex(lines, b) > 0
          THEN [SortedInPlace(lines[i]) EXCEPT !.quantity = quantity]
          ELSE SortedInPlace(lines[i])]

updateQuantity(lines, quantity, b) ==
  IF quantity <= 0
  THEN FilterOut(lines, SearchKey(b))
  ELSE LET searchKey == SearchKey(b)
       IN  [i \in 1..Len(lines) |->
              IF LineKey(lines[i]) = searchKey
              THEN [SortedInPlace(lines[i]) EXCEPT !.quantity = quantity]
              ELSE SortedInPlace(lines[i])]

clearCart == <<>>

\* ------------------------------------------------------------ persistence
\* The members of a line that are undefined when nothing was chosen.
OptionalMembers ==
  {"selectedSize", "selectedFriesOption", "selectedPastaType", "selectedSauce",
   "selectedPizzaStyle"}

\* JSON.stringify of a line: the object of its members, a member whose
\* value is undefined left out.
stringifyLine(line) ==
  [f \in {g \in DOMAIN line : g \notin OptionalMembers \/ line[g] # <<>>} |->
     IF f \in OptionalMembers THEN line[f][1] ELSE line[f]]

\* JSON.parse of such an object, read as an OrderItem: a member that is
\* not there reads as undefined.
parseLine(object) ==
  [f \in {"menuItem", "quantity", "selectedIngredients", "selectedExtras"}
          \cup OptionalMembers |->
     IF f \in DOMAIN object
     THEN (IF f \in OptionalMembers THEN <<object[f]>> ELSE object[f])
     ELSE <<>>]

\* What persist writes under 'cart-storage' after a set: the state, the
\* functions left out, and the version.
stringify(lines) ==
  [state |-> [items |-> [i \in 1..Len(lines) |-> stringifyLine(lines[i])]],
   version |-> 0]

\* The items of the store after hydration: those read from the blob, or
\* the initial `items: []` when nothing is stored.
hydrate(stored) ==
  IF stored = <<>> THEN <<>>
  ELSE LET read == stored[1].state.items
       IN  [i \in 1..Len(read) |-> parseLine(read[i])]

\* A write that is skipped for the empty cart.
setItem_SkipsEmpty(stored, lines, canWrite) ==
  IF canWrite /\ lines # <<>> THEN <<stringify(lines)>> ELSE stored

\* A write that keeps the stored lines whose key the cart does not hold.
setItem_Merging(stored, lines, canWrite) ==
  IF ~canWrite THEN stored
  ELSE LET held(line) == \E i \in 1..Len(lines) : LineKey(lines[i]) = LineKey(line)
           kept == SelectSeq(hydrate(stored), LAMBDA line : ~held(line))
       IN  <<stringify(lines \o kept)>>

\* storage.setItem('cart-storage', ...): the blob after a set, which stays
\* as it was when the browser refuses the write.
setItem(stored, lines, canWrite) ==
  IF canWrite THEN <<stringify(lines)>> ELSE stored

\* Whether a set raises an error to the caller of the operation.  The
\* store hands persist no storage of its own and wraps no set in
\* try/catch, so a refused write is not caught by the store: it reaches the
\* caller or not as the persist layer lets it.
Raises(canWrite) == IF canWrite THEN {FALSE} ELSE BOOLEAN

\* ----------------------------------------------------------------- inputs
Size(name, price) == [name |-> name, price |-> price]

\* Catalog entries: one with a flat price only, and one that declares two
\* sizes next to its flat price.
Plain == [id |-> 1, price |-> 800, sizes |-> <<>>]
Sized == [id |-> 2, price |-> 900, sizes |-> <<Size(sA, 1000), Size(sB, 1250)>>]

Call(menuItem, selectedSize, selectedIngredients, selectedExtras, selectedPastaType, selectedSauce, selectedPizzaStyle, selectedFriesOption) ==
  [menuItem |-> menuItem, selectedSize |-> selectedSize,
   selectedIngredients |-> selectedIngredients, selectedExtras |-> selectedExtras,
   selectedPastaType |-> selectedPastaType, selectedSauce |-> selectedSauce,
   selectedPizzaStyle |-> selectedPizzaStyle,
   selectedFriesOption |-> selectedFriesOption]

\* The flat-priced entry with two ingredients, two extras, a style and a
\* fries option, the lists in one order and in the other.
CallAB == Call(Plain, <<>>, <<sB, sA>>, <<sA, sB>>, <<>>, <<>>,
               <<Size(sB, 100)>>, <<Size(sA, 200)>>)
CallBA == Call(Plain, <<>>, <<sA, sB>>, <<sB, sA>>, <<>>, <<>>,
               <<Size(sB, 100)>>, <<Size(sA, 200)>>)
\* The same with the single extra named "a,b".
CallComma == Call(Plain, <<>>, <<sB, sA>>, <<sAcommaB>>, <<>>, <<>>,
                  <<Size(sB, 100)>>, <<Size(sA, 200)>>)
\* The sized entry in its first size with one extra, a pasta type and a
\* sauce, before and after a change of that size's price and of the
\* entry's flat price.
CallSmall == Call(Sized, <<Size(sA, 1000)>>, <<>>, <<sA>>, <<sA>>, <<sB>>, <<>>, <<>>)
CallSmallRepriced ==
  Call([Sized EXCEPT !.price = 950], <<Size(sA, 1100)>>, <<>>, <<sA>>, <<sA>>, <<sB>>,
       <<>>, <<>>)
\* The same in its second size.
CallLarge == Call(Sized, <<Size(sB, 1250)>>, <<>>, <<sA>>, <<sA>>, <<sB>>, <<>>, <<>>)
\* The sized entry with no size given.
CallNoSize == Call(Sized, <<>>, <<>>, <<>>, <<>>, <<>>, <<>>, <<>>)

\* The argument lists the calls are made with.
Bundles ==
  {CallAB, CallBA, CallComma, CallSmall, CallSmallRepriced, CallLarge, CallNoSize}

\* The quantities updateQuantity is called with: negative, zero, positive.
Quantities == (-1)..MaxTotal

\* The pieces in the cart: the sum of the quantities of its lines.
RECURSIVE Total(_)
Total(lines) == IF lines = <<>> THEN 0 ELSE Head(lines).quantity + Total(Tail(lines))

\* -------------------------------------------------------- the selections
\* 'ohne Zutat', the ingredient that stands for no ingredient.
sOhneZutat == <<111, 104, 110, 101, 32, 90, 117, 116, 97, 116>>

\* A catalog entry with its flags.
Entry(id, sizes, flags) ==
  [id |-> id, price |-> 800, sizes |-> sizes,
   isPizza |-> "isPizza" \in flags, isWunschPizza |-> "isWunschPizza" \in flags,
   isPasta |-> "isPasta" \in flags, isSpezialitaet |-> "isSpezialitaet" \in flags,
   isBeerSelection |-> "isBeerSelection" \in flags]

\* The entries the selections are made for: a build-your-own pizza with
\* two sizes, an entry with a size that is pasta, specialty and beer at
\* once, the specialties 81 and 90, a beer and an entry with no flag.
WunschPizza == Entry(3, <<Size(sA, 1000), Size(sB, 1250)>>, {"isPizza", "isWunschPizza"})
Combined == Entry(4, <<Size(sA, 1000)>>, {"isPasta", "isSpezialitaet", "isBeerSelection"})
Gyros81 == Entry(81, <<>>, {"isSpezialitaet"})
Gyros90 == Entry(90, <<>>, {"isSpezialitaet"})
Beer == Entry(5, <<>>, {"isBeerSelection"})
Drink == Entry(1, <<>>, {})
Catalog == {WunschPizza, Combined, Gyros81, Gyros90, Beer, Drink}

\* The names the ingredient toggles are called with, and the one pasta
\* type and the one sauce that are chosen.
IngredientNames == {sOhneZutat, sA, sB, sC, sD, sE}
PastaTypes == {sA}
SauceTypes == {sB}

\* The names of the extras the dialog offers for a pizza.
ExtraNames == {sA, sB}

\* `!s` for an optional string: undefined and '' are both falsy.
Falsy(opt) == opt = <<>> \/ opt[1] = <<>>

\* list.includes(name) and list.filter(x => x !== name)
Includes(list, name) == \E i \in 1..Len(list) : list[i] = name
RECURSIVE FilterNot(_, _)
FilterNot(list, name) ==
  IF list = <<>> THEN <<>>
  ELSE IF Head(list) = name THEN FilterNot(Tail(list), name)
  ELSE <<Head(list)>> \o FilterNot(Tail(list), name)

\* The card: no selection is made for the item yet.
CardSelections(item) ==
  [via |-> "card", open |-> TRUE, item |-> item, selectedSize |-> <<>>,
   selectedIngredients |-> <<>>, selectedExtras |-> <<>>,
   selectedPastaType |-> <<>>, selectedSauce |-> <<>>]

\* The dialog: resetSelections.
resetSelections(item) ==
  [via |-> "dialog", open |-> TRUE, item |-> item,
   selectedSize |-> IF item.sizes # <<>> THEN <<item.sizes[1]>> ELSE <<>>,
   selectedIngredients |-> <<>>, selectedExtras |-> <<>>,
   selectedPastaType |-> <<<<>>>>, selectedSauce |-> <<<<>>>>]

\* The card's handleIngredientToggle: the new list of the item.
handleIngredientToggleCard(currentIngredients, ingredient) ==
  IF Includes(currentIngredients, ingredient)
  THEN FilterNot(currentIngredients, ingredient)
  ELSE IF Len(currentIngredients) < 4
       THEN Append(currentIngredients, ingredient)
       ELSE currentIngredients

\* The dialog's handleIngredientToggle: the new list.
handleIngredientToggle(prev, ingredient) ==
  IF ingredient = sOhneZutat
  THEN (IF Includes(prev, ingredient) THEN <<>> ELSE <<ingredient>>)
  ELSE LET filtered == FilterNot(prev, sOhneZutat)
       IN  IF Includes(filtered, ingredient)
           THEN FilterNot(filtered, ingredient)
           ELSE Append(filtered, ingredient)

\* A toggle that adds the extra whether it is selected or not.
handleExtraToggle_AlwaysAdds(prev, extra) == Append(prev, extra)

\* The dialog's handleExtraToggle: the new list.
handleExtraToggle(prev, extra) ==
  IF Includes(prev, extra) THEN FilterNot(prev, extra) ELSE Append(prev, extra)

\* The card's handleAddToOrder: the popup it shows, or onAddToOrder when it
\* hands the selections on.
handleAddToOrder(d) ==
  LET item == d.item
      hasSizes == Len(item.sizes) > 0
  IN  IF hasSizes /\ d.selectedSize = <<>> THEN "showSizeRequiredPopup"
      ELSE IF item.isPasta /\ Falsy(d.selectedPastaType) THEN "showPastaTypeRequiredPopup"
      ELSE IF item.isSpezialitaet /\ Falsy(d.selectedSauce) THEN "showSauceRequiredPopup"
      ELSE IF item.isBeerSelection /\ Falsy(d.selectedSauce) THEN "showSauceRequiredPopup"
      ELSE IF item.isWunschPizza /\ Len(d.selectedIngredients) = 0 THEN "showIngredientsPopup"
      ELSE "onAddToOrder"

\* A canAddToCart that does not ask a beer for its kind.
canAddToCart_NoBeer(d) ==
  LET item == d.item
      hasSizes == Len(item.sizes) > 0
  IN  IF hasSizes /\ d.selectedSize = <<>> THEN FALSE
      ELSE IF item.isPasta /\ Falsy(d.selectedPastaType) THEN FALSE
      ELSE IF item.isSpezialitaet /\ Falsy(d.selectedSauce) THEN FALSE
      ELSE IF item.isWunschPizza /\ Len(d.selectedIngredients) = 0 THEN FALSE
      ELSE TRUE

\* The card's canAddToCart, which colours its add button.
canAddToCart(d) ==
  LET item == d.item
      hasSizes == Len(item.sizes) > 0
  IN  IF hasSizes /\ d.selectedSize = <<>> THEN FALSE
      ELSE IF item.isPasta /\ Falsy(d.selectedPastaType) THEN FALSE
      ELSE IF item.isSpezialitaet /\ Falsy(d.selectedSauce) THEN FALSE
      ELSE IF item.isBeerSelection /\ Falsy(d.selectedSauce) THEN FALSE
      ELSE IF item.isWunschPizza /\ Len(d.selectedIngredients) = 0 THEN FALSE
      ELSE TRUE

\* The card's getAddButtonTooltip: the title of its add button.
getAddButtonTooltip(d) ==
  LET item == d.item
      hasSizes == Len(item.sizes) > 0
  IN  IF hasSizes /\ d.selectedSize = <<>> THEN "Bitte waehlen Sie eine Groesse"
      ELSE IF item.isPasta /\ Falsy(d.selectedPastaType)
           THEN "Bitte waehlen Sie eine Nudelsorte"
      ELSE IF item.isSpezialitaet /\ Falsy(d.selectedSauce)
           THEN "Bitte waehlen Sie eine Sosse"
      ELSE IF item.isBeerSelection /\ Falsy(d.selectedSauce)
           THEN "Bitte waehlen Sie eine Biersorte"
      ELSE IF item.isWunschPizza /\ Len(d.selectedIngredients) = 0
           THEN "Bitte waehlen Sie mindestens eine Zutat"
      ELSE "Zum Warenkorb hinzufuegen"

\* A displayed price that leaves the extras out.
getCurrentPrice_NoExtras(d) ==
  IF d.selectedSize # <<>> THEN d.selectedSize[1].price ELSE d.item.price

\* The dialog's getCurrentPrice: the price it displays.
getCurrentPrice(d) ==
  LET price == IF d.selectedSize # <<>> THEN d.selectedSize[1].price ELSE d.item.price
  IN  price + Len(d.selectedExtras) * ExtraPrice

\* The dialog's canAddToOrder, which enables its button.
canAddToOrder(d) ==
  LET item == d.item
      needsSauceSelection ==
        \/ item.isSpezialitaet /\ item.id \notin {81, 82}
        \/ item.id >= 568 /\ item.id <= 573 /\ item.isSpezialitaet
        \/ item.isBeerSelection
      validIngredients == FilterNot(d.selectedIngredients, sOhneZutat)
  IN  IF item.isPasta /\ Falsy(d.selectedPastaType) THEN FALSE
      ELSE IF needsSauceSelection /\ Falsy(d.selectedSauce) THEN FALSE
      ELSE IF item.isWunschPizza
           THEN (IF Includes(d.selectedIngredients, sOhneZutat)
                 THEN Len(validIngredients) = 0
                 ELSE Len(validIngredients) = 4)
           ELSE TRUE

\* The dialog's handleAddToOrder: the arguments it hands to onAddToOrder,
\* which reach addItem as they are; the dialog has no style and no fries
\* option to give.
onAddToOrder(d) ==
  Call(d.item, d.selectedSize, d.selectedIngredients, d.selectedExtras,
       d.selectedPastaType, d.selectedSauce, <<>>, <<>>)

\* handleItemClick: whether the entry opens the dialog.
needsConfiguration(item) ==
  \/ item.sizes # <<>>
  \/ item.isWunschPizza
  \/ item.isPizza
  \/ item.isPasta
  \/ item.isBeerSelection
  \/ item.isSpezialitaet /\ item.id \notin {81, 82}
  \/ item.id >= 568 /\ item.id <= 573 /\ item.isSpezialitaet

\* ------------------------------------------------- the step-by-step dialog
\* The dialog that asks for one selection per step (ItemModal with
\* currentStep).  Its selections, its toggles and its handleItemClick are
\* those of the dialog above.
ConfigurationStep == {"size", "pasta", "sauce", "ingredients", "extras", "summary"}

\* needsSauceSelection of canProceedToNext.
needsSauceSelection(item) ==
  \/ item.isSpezialitaet /\ item.id \notin {81, 82}
  \/ item.id >= 568 /\ item.id <= 573 /\ item.isSpezialitaet
  \/ item.isBeerSelection

\* resetSelections: the step the dialog opens with.
initialStep(item) ==
  IF Len(item.sizes) > 0 THEN "size"
  ELSE IF item.isPasta THEN "pasta"
  ELSE IF item.isSpezialitaet /\ item.id \notin {81, 82} THEN "sauce"
  ELSE IF item.id >= 568 /\ item.id <= 573 /\ item.isSpezialitaet THEN "sauce"
  ELSE IF item.isBeerSelection THEN "sauce"
  ELSE IF item.isWunschPizza THEN "ingredients"
  ELSE IF item.isPizza THEN "extras"
  ELSE "summary"

\* resetSelections: the selections the dialog opens with.
resetSelectionsSteps(item) == [resetSelections(item) EXCEPT !.via = "steps"]

\* A getNextStep that goes from the extras back to the ingredients.
getNextStep_Loops(step, item) ==
  CASE step = "size" ->
         IF item.isPasta THEN <<"pasta">>
         ELSE IF item.isSpezialitaet /\ item.id \notin {81, 82} THEN <<"sauce">>
         ELSE IF item.id >= 568 /\ item.id <= 573 /\ item.isSpezialitaet THEN <<"sauce">>
         ELSE IF item.isBeerSelection THEN <<"sauce">>
         ELSE IF item.isWunschPizza THEN <<"ingredients">>
         ELSE IF item.isPizza THEN <<"extras">>
         ELSE <<"summary">>
    [] step = "pasta" ->
         IF item.isSpezialitaet /\ item.id \notin {81, 82} THEN <<"sauce">>
         ELSE IF item.isWunschPizza THEN <<"ingredients">>
         ELSE IF item.isPizza THEN <<"extras">>
         ELSE <<"summary">>
    [] step = "sauce" ->
         IF item.isWunschPizza THEN <<"ingredients">>
         ELSE IF item.isPizza THEN <<"extras">>
         ELSE <<"summary">>
    [] step = "ingredients" ->
         IF item.isPizza \/ item.isWunschPizza THEN <<"extras">> ELSE <<"summary">>
    [] step = "extras" ->
         IF item.isWunschPizza THEN <<"ingredients">> ELSE <<"summary">>
    [] OTHER -> <<>>

\* getNextStep: the step after `step`, <<>> for null.
getNextStep(step, item) ==
  CASE step = "size" ->
         IF item.isPasta THEN <<"pasta">>
         ELSE IF item.isSpezialitaet /\ item.id \notin {81, 82} THEN <<"sauce">>
         ELSE IF item.id >= 568 /\ item.id <= 573 /\ item.isSpezialitaet THEN <<"sauce">>
         ELSE IF item.isBeerSelection THEN <<"sauce">>
         ELSE IF item.isWunschPizza THEN <<"ingredients">>
         ELSE IF item.isPizza THEN <<"extras">>
         ELSE <<"summary">>
    [] step = "pasta" ->
         IF item.isSpezialitaet /\ item.id \notin {81, 82} THEN <<"sauce">>
         ELSE IF item.isWunschPizza THEN <<"ingredients">>
         ELSE IF item.isPizza THEN <<"extras">>
         ELSE <<"summary">>
    [] step = "sauce" ->
         IF item.isWunschPizza THEN <<"ingredients">>
         ELSE IF item.isPizza THEN <<"extras">>
         ELSE <<"summary">>
    [] step = "ingredients" ->
         IF item.isPizza \/ item.isWunschPizza THEN <<"extras">> ELSE <<"summary">>
    [] step = "extras" -> <<"summary">>
    [] OTHER -> <<>>

\* canProceedToNext: whether the selection of the step is made.
canProceedToNext(step, d) ==
  CASE step = "size" -> d.item.sizes = <<>> \/ d.selectedSize # <<>>
    [] step = "pasta" -> ~d.item.isPasta \/ d.selectedPastaType # <<<<>>>>
    [] step = "sauce" -> ~needsSauceSelection(d.item) \/ d.selectedSauce # <<<<>>>>
    [] step = "ingredients" ->
         IF ~d.item.isWunschPizza THEN TRUE
         ELSE LET validIngredients == FilterNot(d.selectedIngredients, sOhneZutat)
              IN  IF Includes(d.selectedIngredients, sOhneZutat)
                  THEN Len(validIngredients) = 0
                  ELSE Len(validIngredients) = 4
    [] OTHER -> TRUE

\* handleNext: the step after a press of Next.
handleNext(step, d) ==
  IF ~canProceedToNext(step, d) THEN step
  ELSE LET nextStep == getNextStep(step, d.item)
       IN  IF nextStep # <<>> THEN nextStep[1] ELSE step

\* handleBack: the step after a press of Back; a case that sets no step
\* leaves the step as it is.
handleBack(step, item) ==
  CASE step = "pasta" ->
         IF Len(item.sizes) > 0 THEN "size" ELSE step
    [] step = "sauce" ->
         IF item.isPasta THEN "pasta"
         ELSE IF Len(item.sizes) > 0 THEN "size"
         ELSE step
    [] step = "ingredients" ->
         IF item.isSpezialitaet /\ item.id \notin {81, 82} THEN "sauce"
         ELSE IF item.id >= 568 /\ item.id <= 573 /\ item.isSpezialitaet THEN "sauce"
         ELSE IF item.isBeerSelection THEN "sauce"
         ELSE IF item.isPasta THEN "pasta"
         ELSE IF Len(item.sizes) > 0 THEN "size"
         ELSE step
    [] step = "extras" ->
         IF item.isWunschPizza THEN "ingredients"
         ELSE IF item.isSpezialitaet /\ item.id \notin {81, 82} THEN "sauce"
         ELSE IF item.id >= 568 /\ item.id <= 573 /\ item.isSpezialitaet THEN "sauce"
         ELSE IF item.isBeerSelection THEN "sauce"
         ELSE IF item.isPasta THEN "pasta"
         ELSE IF Len(item.sizes) > 0 THEN "size"
         ELSE step
    [] step = "summary" ->
         IF item.isPizza \/ item.isWunschPizza THEN "extras"
         ELSE IF item.isWunschPizza THEN "ingredients"
         ELSE IF item.isSpezialitaet /\ item.id \notin {81, 82} THEN "sauce"
         ELSE IF item.id >= 568 /\ item.id <= 573 /\ item.isSpezialitaet THEN "sauce"
         ELSE IF item.isBeerSelection THEN "sauce"
         ELSE IF item.isPasta THEN "pasta"
         ELSE IF Len(item.sizes) > 0 THEN "size"
         ELSE step
    [] OTHER -> step

\* The entries of every combination of flags: with and without sizes, and
\* with an id that is excluded from the sauce (81), one that is not (90)
\* and one of the salads (570).
StepIds == {81, 90, 570}
FlagNames == {"isPizza", "isWunschPizza", "isPasta", "isSpezialitaet", "isBeerSelection"}
StepCatalog ==
  {Entry(id, sizes, flags) :
     id \in StepIds, sizes \in {<<>>, <<Size(sA, 1000), Size(sB, 1250)>>},
     flags \in SUBSET FlagNames}

\* The names the step dialog's toggles are called with.
StepIngredientNames == {sOhneZutat, sA, sB, sC, sD}
StepExtraNames == {sA}

\* ------------------------------------------------------------- the machine
\* `last` records the latest call: its name, whether a line with the key of
\* the call was in the cart when it was made, the arguments of an addItem,
\* the quantity of an updateQuantity, and whether the call raised an error.
\* `storage` is what the browser holds under 'cart-storage' (<<>> when
\* nothing is stored) and `writable` whether it accepts a write.  While
\* the cart is worked on, no selection is being made.
NoCall == Call(Plain, <<>>, <<>>, <<>>, <<>>, <<>>, <<>>, <<>>)

NoDialog == [resetSelections(Drink) EXCEPT !.via = "none", !.open = FALSE]

Created == [op |-> "create", b |-> NoCall, quantity |-> 0, hit |-> FALSE, raised |-> FALSE]

Init ==
  /\ items = <<>>
  /\ last = Created
  /\ storage = <<>>
  /\ writable = TRUE
  /\ dialog = NoDialog
  /\ outcome = "none"
  /\ currentStep = "size"
  /\ peer = <<>>
  /\ writer = 0

AddItem ==
  \E b \in Bundles, thrown \in Raises(writable) :
    LET index == findItemIndex(items, b)
    IN  /\ Total(items) < MaxTotal
        /\ index > 0 \/ Len(items) < MaxLines
        /\ items' = addItem(items, b)
        /\ storage' = setItem(storage, items', writable)
        /\ last' = [op |-> "addItem", b |-> b, quantity |-> 0, hit |-> index > 0,
                    raised |-> thrown]
        /\ UNCHANGED <<writable, dialog, outcome, currentStep, peer, writer>>

RemoveItem ==
  \E b \in Bundles, thrown \in Raises(writable) :
    /\ items' = removeItem(items, b)
    /\ storage' = setItem(storage, items', writable)
    /\ last' = [op |-> "removeItem", b |-> NoCall, quantity |-> 0,
                hit |-> findItemIndex(items, b) > 0, raised |-> thrown]
    /\ UNCHANGED <<writable, dialog, outcome, currentStep, peer, writer>>

UpdateQuantity ==
  \E b \in Bundles, q \in Quantities, thrown \in Raises(writable) :
    LET updated == updateQuantity(items, q, b)
    IN  /\ Total(updated) <= MaxTotal
        /\ items' = updated
        /\ storage' = setItem(storage, items', writable)
        /\ last' = [op |-> "updateQuantity", b |-> NoCall, quantity |-> q,
                    hit |-> findItemIndex(items, b) > 0, raised |-> thrown]
        /\ UNCHANGED <<writable, dialog, outcome, currentStep, peer, writer>>

ClearCart ==
  \E thrown \in Raises(writable) :
    /\ items' = clearCart
    /\ storage' = setItem(storage, items', writable)
    /\ last' = [op |-> "clearCart", b |-> NoCall, quantity |-> 0, hit |-> FALSE,
                raised |-> thrown]
    /\ UNCHANGED <<writable, dialog, outcome, currentStep, peer, writer>>

\* A restart of the page: the store is created anew and hydrated from
\* what is stored.
Restart ==
  /\ items' = hydrate(storage)
  /\ last' = [Created EXCEPT !.op = "rehydrate"]
  /\ UNCHANGED <<storage, writable, dialog, outcome, currentStep, peer, writer>>

Next == AddItem \/ RemoveItem \/ UpdateQuantity \/ ClearCart \/ Restart

Spec == Init /\ [][Next]_vars

\* The same store in a browser that refuses every write to its storage.
InitDenied ==
  /\ items = <<>>
  /\ last = Created
  /\ storage = <<>>
  /\ writable = FALSE
  /\ dialog = NoDialog
  /\ outcome = "none"
  /\ currentStep = "size"
  /\ peer = <<>>
  /\ writer = 0

SpecDenied == InitDenied /\ [][Next]_vars

\* The selections for one entry, made on the card or in the dialog.
cart == <<items, last, storage, writable, peer, writer>>

InitSelections ==
  /\ items = <<>>
  /\ last = Created
  /\ storage = <<>>
  /\ writable = TRUE
  /\ \E item \in Catalog :
       \/ dialog = CardSelections(item)
       \/ dialog = [resetSelections(item) EXCEPT !.open = FALSE]
  /\ outcome = "none"
  /\ currentStep = "size"
  /\ peer = <<>>
  /\ writer = 0

\* The card: handleSizeSelect, handlePastaTypeSelect and handleSauceSelect,
\* each from the popup the card shows for the entry.
CardSizeSelect ==
  /\ dialog.via = "card"
  /\ \E i \in 1..Len(dialog.item.sizes) :
       dialog' = [dialog EXCEPT !.selectedSize = <<dialog.item.sizes[i]>>]
  /\ outcome' = "none"
  /\ UNCHANGED <<cart, currentStep>>

CardPastaTypeSelect ==
  /\ dialog.via = "card"
  /\ ~dialog.item.isWunschPizza /\ dialog.item.isPasta
  /\ \E pastaType \in PastaTypes :
       dialog' = [dialog EXCEPT !.selectedPastaType = <<pastaType>>]
  /\ outcome' = "none"
  /\ UNCHANGED <<cart, currentStep>>

CardSauceSelect ==
  /\ dialog.via = "card"
  /\ ~dialog.item.isWunschPizza
  /\ dialog.item.isSpezialitaet \/ dialog.item.isBeerSelection
  /\ \E sauce \in SauceTypes :
       dialog' = [dialog EXCEPT !.selectedSauce = <<sauce>>]
  /\ outcome' = "none"
  /\ UNCHANGED <<cart, currentStep>>

\* The card's ingredient popup: a name that is not selected is disabled
\* once four are.
CardIngredientToggle ==
  /\ dialog.via = "card"
  /\ dialog.item.isWunschPizza
  /\ \E ingredient \in IngredientNames :
       /\ Includes(dialog.selectedIngredients, ingredient)
          \/ Len(dialog.selectedIngredients) < 4
       /\ dialog' = [dialog EXCEPT !.selectedIngredients =
                       handleIngredientToggleCard(@, ingredient)]
  /\ outcome' = "none"
  /\ UNCHANGED <<cart, currentStep>>

\* The card's add button.
CardAddToOrder ==
  /\ dialog.via = "card"
  /\ outcome' = handleAddToOrder(dialog)
  /\ UNCHANGED <<dialog, cart, currentStep>>

\* handleItemClick: the entry opens the dialog, or is handed on as it is.
ItemClick ==
  /\ dialog.via = "dialog"
  /\ ~dialog.open
  /\ IF needsConfiguration(dialog.item)
     THEN dialog' = resetSelections(dialog.item) /\ outcome' = "none"
     ELSE UNCHANGED dialog /\ outcome' = "onAddToOrder"
  /\ UNCHANGED <<cart, currentStep>>

DialogSizeSelect ==
  /\ dialog.via = "dialog" /\ dialog.open
  /\ \E i \in 1..Len(dialog.item.sizes) :
       dialog' = [dialog EXCEPT !.selectedSize = <<dialog.item.sizes[i]>>]
  /\ outcome' = "none"
  /\ UNCHANGED <<cart, currentStep>>

DialogPastaTypeSelect ==
  /\ dialog.via = "dialog" /\ dialog.open
  /\ dialog.item.isPasta
  /\ \E pastaType \in PastaTypes :
       dialog' = [dialog EXCEPT !.selectedPastaType = <<pastaType>>]
  /\ outcome' = "none"
  /\ UNCHANGED <<cart, currentStep>>

DialogSauceSelect ==
  /\ dialog.via = "dialog" /\ dialog.open
  /\ \/ dialog.item.isSpezialitaet /\ dialog.item.id \notin {81, 82}
     \/ dialog.item.id >= 568 /\ dialog.item.id <= 573 /\ dialog.item.isSpezialitaet
     \/ dialog.item.isBeerSelection
  /\ \E sauce \in SauceTypes :
       dialog' = [dialog EXCEPT !.selectedSauce = <<sauce>>]
  /\ outcome' = "none"
  /\ UNCHANGED <<cart, currentStep>>

DialogIngredientToggle ==
  /\ dialog.via = "dialog" /\ dialog.open
  /\ dialog.item.isWunschPizza
  /\ \E ingredient \in IngredientNames :
       dialog' = [dialog EXCEPT !.selectedIngredients =
                    handleIngredientToggle(@, ingredient)]
  /\ outcome' = "none"
  /\ UNCHANGED <<cart, currentStep>>

\* The extras are offered for a pizza and for a build-your-own pizza.
DialogExtraToggle ==
  /\ dialog.via = "dialog" /\ dialog.open
  /\ dialog.item.isPizza \/ dialog.item.isWunschPizza
  /\ \E extra \in ExtraNames :
       dialog' = [dialog EXCEPT !.selectedExtras = handleExtraToggle(@, extra)]
  /\ outcome' = "none"
  /\ UNCHANGED <<cart, currentStep>>

\* The dialog's add button, enabled by canAddToOrder: the selections are
\* handed on and the dialog closes.
DialogAddToOrder ==
  /\ dialog.via = "dialog" /\ dialog.open
  /\ canAddToOrder(dialog)
  /\ dialog' = [dialog EXCEPT !.open = FALSE]
  /\ outcome' = "onAddToOrder"
  /\ UNCHANGED <<cart, currentStep>>

DialogClose ==
  /\ dialog.via = "dialog" /\ dialog.open
  /\ dialog' = [dialog EXCEPT !.open = FALSE]
  /\ outcome' = "none"
  /\ UNCHANGED <<cart, currentStep>>

NextSelections ==
  \/ CardSizeSelect \/ CardPastaTypeSelect \/ CardSauceSelect
  \/ CardIngredientToggle \/ CardAddToOrder
  \/ ItemClick
  \/ DialogSizeSelect \/ DialogPastaTypeSelect \/ DialogSauceSelect
  \/ DialogIngredientToggle \/ DialogExtraToggle \/ DialogAddToOrder \/ DialogClose

SpecSelections == InitSelections /\ [][NextSelections]_vars

\* The cart view (OrderItemComponent): each line is shown with a minus, a
\* plus and a remove button, which call the store with the id of the line
\* and its size, ingredients and extras.  The lines it shows are made of a
\* size, ingredients and extras only.
ViewPlain == Call(Plain, <<>>, <<sB, sA>>, <<sA>>, <<>>, <<>>, <<>>, <<>>)
ViewLarge == Call(Sized, <<Size(sB, 1250)>>, <<>>, <<>>, <<>>, <<>>, <<>>, <<>>)
ViewSmall == Call(Sized, <<Size(sA, 1000)>>, <<>>, <<sB, sA>>, <<>>, <<>>, <<>>, <<>>)
ViewBundles == {ViewPlain, ViewLarge, ViewSmall, CallNoSize}

\* The arguments a button of line i passes besides a quantity.
lineArguments(line) ==
  Call(line.menuItem, line.selectedSize, line.selectedIngredients, line.selectedExtras,
       <<>>, <<>>, <<>>, <<>>)

\* Math.max(0, n)
Max0(n) == IF n > 0 THEN n ELSE 0

\* A minus button that never asks for less than one.
minusPressed_KeepsOne(lines, i) ==
  updateQuantity(lines, IF lines[i].quantity > 1 THEN lines[i].quantity - 1 ELSE 1,
                 lineArguments(lines[i]))

\* The cart after the minus button of line i:
\* onUpdateQuantity(id, Math.max(0, quantity - 1), size, ingredients, extras)
minusPressed(lines, i) ==
  updateQuantity(lines, Max0(lines[i].quantity - 1), lineArguments(lines[i]))

\* The cart after the plus button of line i.
plusPressed(lines, i) ==
  updateQuantity(lines, lines[i].quantity + 1, lineArguments(lines[i]))

\* The cart after the remove button of line i.
removePressed(lines, i) == removeItem(lines, lineArguments(lines[i]))

ViewAddItem ==
  \E b \in ViewBundles :
    LET index == findItemIndex(items, b)
    IN  /\ Total(items) < MaxTotal
        /\ index > 0 \/ Len(items) < MaxLines
        /\ items' = addItem(items, b)
        /\ storage' = setItem(storage, items', writable)
        /\ last' = [op |-> "addItem", b |-> b, quantity |-> 0, hit |-> index > 0,
                    raised |-> FALSE]
        /\ UNCHANGED <<writable, dialog, outcome, currentStep, peer, writer>>

\* `last` holds the arguments the button passed and whether the line was
\* there, which it is.
MinusPress ==
  \E i \in 1..Len(items) :
    /\ items' = minusPressed(items, i)
    /\ storage' = setItem(storage, items', writable)
    /\ last' = [op |-> "minus", b |-> lineArguments(items[i]),
                quantity |-> items[i].quantity, hit |-> TRUE, raised |-> FALSE]
    /\ UNCHANGED <<writable, dialog, outcome, currentStep, peer, writer>>

PlusPress ==
  \E i \in 1..Len(items) :
    /\ Total(items) < MaxTotal
    /\ items' = plusPressed(items, i)
    /\ storage' = setItem(storage, items', writable)
    /\ last' = [op |-> "plus", b |-> lineArguments(items[i]),
                quantity |-> items[i].quantity, hit |-> TRUE, raised |-> FALSE]
    /\ UNCHANGED <<writable, dialog, outcome, currentStep, peer, writer>>

RemovePress ==
  \E i \in 1..Len(items) :
    /\ items' = removePressed(items, i)
    /\ storage' = setItem(storage, items', writable)
    /\ last' = [op |-> "remove", b |-> lineArguments(items[i]),
                quantity |-> items[i].quantity, hit |-> TRUE, raised |-> FALSE]
    /\ UNCHANGED <<writable, dialog, outcome, currentStep, peer, writer>>

NextCartView == ViewAddItem \/ MinusPress \/ PlusPress \/ RemovePress

SpecCartView == Init /\ [][NextCartView]_vars

\* Two tabs of one browser.  Each creates its own store, hydrated from the
\* shared storage when the tab loads; `items` is the cart in the memory of
\* tab 1 and `peer` that of tab 2, and `writer` is the tab whose store
\* called set last (0 when none has).  Every operation of a tab ends in a
\* set of its store, which writes that tab's cart under 'cart-storage'.
Tabs == {1, 2}

TabItems(t) == IF t = 1 THEN items ELSE peer

\* The argument lists the tabs call with.
TabBundles == {CallAB, CallSmall}

InitTabs ==
  /\ items = hydrate(<<>>)
  /\ peer = hydrate(<<>>)
  /\ writer = 0
  /\ last = Created
  /\ storage = <<>>
  /\ writable = TRUE
  /\ dialog = NoDialog
  /\ outcome = "none"
  /\ currentStep = "size"

\* The set of tab t's store with the new cart, and the write it causes.
TabSet(t, lines) ==
  /\ IF t = 1 THEN items' = lines /\ UNCHANGED peer
     ELSE peer' = lines /\ UNCHANGED items
  /\ storage' = setItem(storage, lines, writable)
  /\ writer' = t
  /\ UNCHANGED <<writable, dialog, outcome, currentStep>>

TabAddItem ==
  \E t \in Tabs, b \in TabBundles :
    /\ Total(TabItems(t)) < MaxTotal
    /\ findItemIndex(TabItems(t), b) > 0 \/ Len(TabItems(t)) < MaxLines
    /\ TabSet(t, addItem(TabItems(t), b))
    /\ last' = [op |-> "addItem", b |-> b, quantity |-> 0,
                hit |-> findItemIndex(TabItems(t), b) > 0, raised |-> FALSE]

TabRemoveItem ==
  \E t \in Tabs, b \in TabBundles :
    /\ TabSet(t, removeItem(TabItems(t), b))
    /\ last' = [op |-> "removeItem", b |-> NoCall, quantity |-> 0,
                hit |-> findItemIndex(TabItems(t), b) > 0, raised |-> FALSE]

TabUpdateQuantity ==
  \E t \in Tabs, b \in TabBundles, q \in Quantities :
    LET updated == updateQuantity(TabItems(t), q, b)
    IN  /\ Total(updated) <= MaxTotal
        /\ TabSet(t, updated)
        /\ last' = [op |-> "updateQuantity", b |-> NoCall, quantity |-> q,
                    hit |-> findItemIndex(TabItems(t), b) > 0, raised |-> FALSE]

TabClearCart ==
  \E t \in Tabs :
    /\ TabSet(t, clearCart)
    /\ last' = [op |-> "clearCart", b |-> NoCall, quantity |-> 0, hit |-> FALSE,
                raised |-> FALSE]

\* A tab is loaded anew: its store is created and hydrated from the
\* storage; no operation of the cart is called.
TabLoad ==
  \E t \in Tabs :
    /\ IF t = 1 THEN items' = hydrate(storage) /\ UNCHANGED peer
       ELSE peer' = hydrate(storage) /\ UNCHANGED items
    /\ last' = [Created EXCEPT !.op = "rehydrate"]
    /\ UNCHANGED <<storage, writer, writable, dialog, outcome, currentStep>>

NextTabs == TabAddItem \/ TabRemoveItem \/ TabUpdateQuantity \/ TabClearCart \/ TabLoad

SpecTabs == InitTabs /\ [][NextTabs]_vars

\* The step-by-step dialog for one entry.  A selection is offered in its
\* own step only; the summary shows the add button, every other step the
\* Next button.
InitSteps ==
  /\ items = <<>>
  /\ last = Created
  /\ storage = <<>>
  /\ writable = TRUE
  /\ \E item \in StepCatalog : dialog = [resetSelectionsSteps(item) EXCEPT !.open = FALSE]
  /\ outcome = "none"
  /\ currentStep = "size"
  /\ peer = <<>>
  /\ writer = 0

\* handleItemClick: the entry opens the dialog, which resets its
\* selections and its step, or is handed on as it is.
StepItemClick ==
  /\ dialog.via = "steps" /\ ~dialog.open
  /\ IF needsConfiguration(dialog.item)
     THEN /\ dialog' = resetSelectionsSteps(dialog.item)
          /\ currentStep' = initialStep(dialog.item)
          /\ outcome' = "none"
     ELSE /\ UNCHANGED <<dialog, currentStep>>
          /\ outcome' = "onAddToOrder"
  /\ UNCHANGED cart

StepSizeSelect ==
  /\ dialog.via = "steps" /\ dialog.open /\ currentStep = "size"
  /\ \E i \in 1..Len(dialog.item.sizes) :
       dialog' = [dialog EXCEPT !.selectedSize = <<dialog.item.sizes[i]>>]
  /\ outcome' = "none"
  /\ UNCHANGED <<cart, currentStep>>

StepPastaTypeSelect ==
  /\ dialog.via = "steps" /\ dialog.open /\ currentStep = "pasta"
  /\ \E pastaType \in PastaTypes :
       dialog' = [dialog EXCEPT !.selectedPastaType = <<pastaType>>]
  /\ outcome' = "none"
  /\ UNCHANGED <<cart, currentStep>>

StepSauceSelect ==
  /\ dialog.via = "steps" /\ dialog.open /\ currentStep = "sauce"
  /\ \E sauce \in SauceTypes :
       dialog' = [dialog EXCEPT !.selectedSauce = <<sauce>>]
  /\ outcome' = "none"
  /\ UNCHANGED <<cart, currentStep>>

StepIngredientToggle ==
  /\ dialog.via = "steps" /\ dialog.open /\ currentStep = "ingredients"
  /\ \E ingredient \in StepIngredientNames :
       dialog' = [dialog EXCEPT !.selectedIngredients =
                    handleIngredientToggle(@, ingredient)]
  /\ outcome' = "none"
  /\ UNCHANGED <<cart, currentStep>>

StepExtraToggle ==
  /\ dialog.via = "steps" /\ dialog.open /\ currentStep = "extras"
  /\ \E extra \in StepExtraNames :
       dialog' = [dialog EXCEPT !.selectedExtras = handleExtraToggle(@, extra)]
  /\ outcome' = "none"
  /\ UNCHANGED <<cart, currentStep>>

\* The Next button, which every step but the summary shows.
StepNext ==
  /\ dialog.via = "steps" /\ dialog.open /\ currentStep # "summary"
  /\ currentStep' = handleNext(currentStep, dialog)
  /\ outcome' = "none"
  /\ UNCHANGED <<cart, dialog>>

\* The Back button, which is disabled on the step the dialog opens with.
StepBack ==
  /\ dialog.via = "steps" /\ dialog.open
  /\ currentStep # initialStep(dialog.item)
  /\ currentStep' = handleBack(currentStep, dialog.item)
  /\ outcome' = "none"
  /\ UNCHANGED <<cart, dialog>>

\* The add button of the summary: handleAddToOrder hands the selections on
\* and closes the dialog.
StepAddToOrder ==
  /\ dialog.via = "steps" /\ dialog.open /\ currentStep = "summary"
  /\ dialog' = [dialog EXCEPT !.open = FALSE]
  /\ outcome' = "onAddToOrder"
  /\ UNCHANGED <<cart, currentStep>>

StepClose ==
  /\ dialog.via = "steps" /\ dialog.open
  /\ dialog' = [dialog EXCEPT !.open = FALSE]
  /\ outcome' = "none"
  /\ UNCHANGED <<cart, currentStep>>

NextSteps ==
  \/ StepItemClick
  \/ StepSizeSelect \/ StepPastaTypeSelect \/ StepSauceSelect
  \/ StepIngredientToggle \/ StepExtraToggle
  \/ StepNext \/ StepBack \/ StepAddToOrder \/ StepClose

SpecSteps == InitSteps /\ [][NextSteps]_vars

\* ------------------------------------------------------------------ types
TypeOK ==
  /\ Len(items) <= MaxLines
  /\ \A i \in 1..Len(items) : items[i].quantity \in 1..MaxTotal
  /\ Total(items) <= MaxTotal

\* ------------------------------------------------------- notions of the claims
\* The names of a list as a set.
NameSet(list) == {list[i] : i \in 1..Len(list)}

\* The name of an optional size, style or fries option: <<>> or <<name>>.
OptName(opt) == IF opt = <<>> THEN <<>> ELSE <<opt[1].name>>

\* What a line or a call is about, field by field, with nothing joined:
\* the id, the names chosen (or their absence) and the two lists as sets.
IdentityOf(r) ==
  [id |-> r.menuItem.id, size |-> OptName(r.selectedSize),
   fries |-> OptName(r.selectedFriesOption),
   ingredients |-> NameSet(r.selectedIngredients),
   extras |-> NameSet(r.selectedExtras),
   pasta |-> r.selectedPastaType, sauce |-> r.selectedSauce,
   style |-> OptName(r.selectedPizzaStyle)]

\* The positions of the lines with the key k.
LinesWithKey(lines, k) == {i \in 1..Len(lines) : LineKey(lines[i]) = k}

\* The quantity the cart holds under the key k, 0 when it holds none.
QuantityOf(lines, k) ==
  IF LinesWithKey(lines, k) = {} THEN 0
  ELSE lines[CHOOSE i \in LinesWithKey(lines, k) : TRUE].quantity

\* What a line stores besides its quantity, the names of its two lists
\* taken without their order inside the list.
Stored(line) == [SortedInPlace(line) EXCEPT !.quantity = 0]

\* s and t hold the same names the same number of times.
SameNames(s, t) ==
  /\ Len(s) = Len(t)
  /\ \A x \in NameSet(s) \cup NameSet(t) :
       Cardinality({i \in 1..Len(s) : s[i] = x}) = Cardinality({i \in 1..Len(t) : t[i] = x})

\* Two calls with names in their lists that differ at most in the order of
\* the names inside the lists.
Reordered(b1, b2) ==
  /\ Len(b1.selectedIngredients) + Len(b1.selectedExtras) > 0
  /\ b1.menuItem = b2.menuItem
  /\ b1.selectedSize = b2.selectedSize
  /\ b1.selectedFriesOption = b2.selectedFriesOption
  /\ b1.selectedPastaType = b2.selectedPastaType
  /\ b1.selectedSauce = b2.selectedSauce
  /\ b1.selectedPizzaStyle = b2.selectedPizzaStyle
  /\ SameNames(b1.selectedIngredients, b2.selectedIngredients)
  /\ SameNames(b1.selectedExtras, b2.selectedExtras)

\* The pairs of calls that are reorderings of each other.
ReorderedPairs == {p \in Bundles \X Bundles : Reordered(p[1], p[2])}

\* The pairs of calls for one entry with sizes of different names.
SizePairs ==
  {p \in Bundles \X Bundles :
     /\ p[1].menuItem.id = p[2].menuItem.id
     /\ p[1].selectedSize # <<>> /\ p[2].selectedSize # <<>>
     /\ p[1].selectedSize[1].name # p[2].selectedSize[1].name}

\* ------------------------------------------------------------------ claims
\* C1: after any sequence of addItem, removeItem, updateQuantity and
\* clearCart from the empty cart, no two lines of the cart have the same
\* identity key, and no two are about the same id with the same size,
\* fries option, ingredient set, extras set, pasta type, sauce and style.
C1_NoTwoLinesWithOneKey ==
  \A i, j \in 1..Len(items) :
    i # j => /\ LineKey(items[i]) # LineKey(items[j])
             /\ IdentityOf(items[i]) # IdentityOf(items[j])

\* A cart of two lines whose second addItem call met the line it was about.
C1_Witness ==
  /\ last.op = "addItem"
  /\ last.hit
  /\ Len(items) = 2
  /\ items[1].menuItem.id = items[2].menuItem.id

\* C2: addItem never rejects.  If a line with the key of the call exists,
\* the number of lines is unchanged and exactly that line's quantity grows
\* by 1; otherwise exactly one line, of quantity 1 and with the key of the
\* call, is appended.  The same call made twice on the empty cart gives
\* exactly one line, of quantity 2.
C2_AddItemMergesOrAppends ==
  \A b \in Bundles :
    LET k == SearchKey(b)
        r == addItem(items, b)
        at == LinesWithKey(items, k)
        twice == addItem(addItem(<<>>, b), b)
    IN  /\ IF at # {}
           THEN /\ Len(r) = Len(items)
                /\ Cardinality(at) = 1
                /\ \A i \in 1..Len(items) :
                     r[i].quantity = items[i].quantity + (IF i \in at THEN 1 ELSE 0)
           ELSE /\ Len(r) = Len(items) + 1
                /\ r[Len(r)].quantity = 1
                /\ LineKey(r[Len(r)]) = k
                /\ \A i \in 1..Len(items) : r[i].quantity = items[i].quantity
        /\ Len(twice) = 1
        /\ twice[1].quantity = 2

\* An addItem that met its line and left it with quantity 2 in a cart of two.
C2_Witness ==
  /\ last.op = "addItem"
  /\ last.hit
  /\ Len(items) = 2
  /\ QuantityOf(items, SearchKey(last.b)) = 2

\* C3, as claimed: addItem with one ordering of the names followed by
\* addItem with another ordering leaves one line with quantity 2, whatever
\* lines the cart already holds.
C3_ReorderedGivesQuantityTwo ==
  \A p \in ReorderedPairs :
    LET r == addItem(addItem(items, p[1]), p[2])
        at == LinesWithKey(r, SearchKey(p[1]))
    IN  /\ Cardinality(at) = 1
        /\ \A i \in at : r[i].quantity = 2

\* C3, amended: the two calls end on one and the same line, and the
\* quantity of that line is 2 more than the cart held under its key before
\* the two calls: 2 when the cart held no such line.
C3_ReorderedMerge ==
  \A p \in ReorderedPairs :
    LET k == SearchKey(p[1])
        r == addItem(addItem(items, p[1]), p[2])
        before == LinesWithKey(items, k)
        at == LinesWithKey(r, k)
    IN  /\ SearchKey(p[2]) = k
        /\ Cardinality(at) = 1
        /\ \A i \in at : r[i].quantity = QuantityOf(items, k) + 2
        /\ Len(r) = Len(items) + (IF before = {} THEN 1 ELSE 0)

\* The second ordering has met the line of the first, next to another line.
C3_Witness ==
  /\ last.op = "addItem"
  /\ last.hit
  /\ last.b = CallBA
  /\ Len(items) = 2
  /\ \E i \in 1..Len(items) :
       /\ IdentityOf(items[i]) = IdentityOf(CallAB)
       /\ items[i].quantity = 2

\* C4, as claimed: a line and a call have the same key if and only if they
\* are about the same id, the same size, fries, pasta, sauce and style names
\* and the same ingredient and extras sets, whatever characters the names
\* hold.
C4_KeyIffSameIdentity ==
  \A i \in 1..Len(items) : \A b \in Bundles :
    (LineKey(items[i]) = SearchKey(b)) <=> (IdentityOf(items[i]) = IdentityOf(b))

RulePrice(b) ==
  (IF b.selectedSize # <<>> THEN b.selectedSize[1].price ELSE b.menuItem.price)
  + 150 * Len(b.selectedExtras)
  + (IF b.selectedPizzaStyle # <<>> /\ b.selectedPizzaStyle[1].price > 0
     THEN b.selectedPizzaStyle[1].price ELSE 0)
  + (IF b.selectedFriesOption # <<>> /\ b.selectedFriesOption[1].price > 0
     THEN b.selectedFriesOption[1].price ELSE 0)

\* C6: the line addItem creates, for an entry without sizes or with a size
\* given, carries base + 1.50 x extras + style price + fries price, the
\* base being the price of the size given, else the flat price.  Flat 8.00
\* with 2 extras gives 11.00; a size of 12.50 with 1 extra gives 14.00.
C6_NewLinePrice ==
  /\ \A b \in Bundles :
       ( /\ LinesWithKey(items, SearchKey(b)) = {}
         /\ (b.menuItem.sizes = <<>> \/ b.selectedSize # <<>>) )
       => LET r == addItem(items, b)
          IN  r[Len(r)].menuItem.price = RulePrice(b)
  /\ LET r == addItem(items, Call(Plain, <<>>, <<>>, <<sB, sA>>, <<>>, <<>>, <<>>, <<>>))
     IN  r[Len(r)].menuItem.price = 1100
  /\ LET r == addItem(items, Call([Sized EXCEPT !.id = 3], <<Size(sB, 1250)>>, <<>>,
                                  <<sA>>, <<>>, <<>>, <<>>, <<>>))
     IN  r[Len(r)].menuItem.price = 1400

\* A new line of the flat-priced entry with two extras, a style and a
\* fries option: 8.00 + 3.00 + 1.00 + 2.00.
C6_Witness ==
  /\ last.op = "addItem"
  /\ ~last.hit
  /\ Len(last.b.selectedExtras) = 2
  /\ last.b.menuItem.sizes = <<>>
  /\ items[Len(items)].menuItem.price = 1400
  /\ items[Len(items)].quantity = 1

\* C7, as claimed: a line created for an entry that declares sizes, by a
\* call with no size, is priced from the entry's first size.
C7_NoSizeUsesFirstSize ==
  ( /\ last.op = "addItem"
    /\ ~last.hit
    /\ last.b.menuItem.sizes # <<>>
    /\ last.b.selectedSize = <<>> )
  => items[Len(items)].menuItem.price =
       last.b.menuItem.sizes[1].price + 150 * Len(last.b.selectedExtras)

C9_NonPositiveQuantityRemoves ==
  \A b \in Bundles :
    LET removed == removeItem(items, b)
    IN  \A q \in (0 - MaxTotal)..0 : updateQuantity(items, q, b) = removed

\* An updateQuantity with a negative quantity has taken its line away.
C9_Witness ==
  /\ last.op = "updateQuantity"
  /\ last.quantity < 0
  /\ last.hit
  /\ Len(items) = 1

\* C10: for a quantity q > 0, updateQuantity sets the quantity of the line
\* with the key of the call to exactly q, whatever it was, and the
\* quantities of the other lines stay; the same call made again changes
\* nothing.
C10_QuantityIsSet ==
  \A b \in Bundles :
    LET at == LinesWithKey(items, SearchKey(b))
    IN  \A q \in 1..MaxTotal :
          LET r == updateQuantity(items, q, b)
          IN  /\ Len(r) = Len(items)
              /\ \A i \in 1..Len(items) :
                   r[i].quantity = IF i \in at THEN q ELSE items[i].quantity
              /\ updateQuantity(r, q, b) = r

\* An updateQuantity has set its line to 2, next to a line it left alone.
C10_Witness ==
  /\ last.op = "updateQuantity"
  /\ last.hit
  /\ last.quantity = 2
  /\ Len(items) = 2
  /\ \E i \in 1..2 : items[i].quantity = 2 /\ items[3 - i].quantity = 1

\* The lines of two carts agree, place by place, in quantity and in what
\* they store.
SameLines(r, s) ==
  /\ Len(r) = Len(s)
  /\ \A i \in 1..Len(r) : /\ r[i].quantity = s[i].quantity
                           /\ Stored(r[i]) = Stored(s[i])

C12_QuantityAtLeastOne ==
  /\ \A i \in 1..Len(items) : items[i].quantity \in Nat /\ items[i].quantity >= 1
  /\ \A b \in Bundles : \A q \in (0 - MaxTotal)..MaxTotal :
       LET r == updateQuantity(items, q, b)
       IN  /\ \A i \in 1..Len(r) : r[i].quantity \in Nat /\ r[i].quantity >= 1
           /\ q <= 0 => LinesWithKey(r, SearchKey(b)) = {}

\* An updateQuantity to 0 has taken its line out of a cart of two.
C12_Witness ==
  /\ last.op = "updateQuantity"
  /\ last.quantity = 0
  /\ last.hit
  /\ Len(items) = 1
  /\ items[1].quantity = 2

\* The keys of the lines of a cart, in the order of the lines.
KeysOf(lines) == [i \in 1..Len(lines) |-> LineKey(lines[i])]

\* The keys ks without the key k.
RECURSIVE Without(_, _)
Without(ks, k) ==
  IF ks = <<>> THEN <<>>
  ELSE IF Head(ks) = k THEN Without(Tail(ks), k)
  ELSE <<Head(ks)>> \o Without(Tail(ks), k)

\* C13: the items keep insertion order.  addItem of a new key appends the
\* line at the end; a merging addItem and an updateQuantity leave every
\* line at its place; removeItem keeps the order of the lines that stay,
\* also in a cart of one line more than this one.
C13_InsertionOrder ==
  LET ks == KeysOf(items)
  IN  /\ \A b \in Bundles :
           LET k == SearchKey(b)
           IN  /\ KeysOf(addItem(items, b)) =
                    IF LinesWithKey(items, k) # {} THEN ks ELSE Append(ks, k)
               /\ \A q \in 1..MaxTotal : KeysOf(updateQuantity(items, q, b)) = ks
               /\ KeysOf(removeItem(items, b)) = Without(ks, k)
      /\ \A c \in Bundles :
           LET more == addItem(items, c)
               moreKeys == KeysOf(more)
           IN  \A b \in Bundles :
                 KeysOf(removeItem(more, b)) = Without(moreKeys, SearchKey(b))

\* A new line has been put behind the line the cart held, which keeps its
\* quantity of 2.
C13_Witness ==
  /\ last.op = "addItem"
  /\ ~last.hit
  /\ Len(items) = 2
  /\ items[1].quantity = 2
  /\ LineKey(items[2]) = SearchKey(last.b)

\* C14: the cart is written to the storage after every mutation: in every
\* state a restart gives a cart with the same lines in the same order, with
\* the same keys, quantities and stored prices.
C14_RestartKeepsCart ==
  LET read == hydrate(storage)
  IN  /\ Len(read) = Len(items)
      /\ \A i \in 1..Len(items) :
           /\ LineKey(read[i]) = LineKey(items[i])
           /\ read[i].quantity = items[i].quantity
           /\ read[i].menuItem.price = items[i].menuItem.price

\* A restart has brought back a cart of two lines: one with a size, a
\* pasta type and a sauce, one with none of them.
C14_Witness ==
  /\ last.op = "rehydrate"
  /\ Len(items) = 2
  /\ Total(items) = 3
  /\ \E i \in 1..2 : /\ items[i].selectedSize # <<>>
                       /\ items[3 - i].selectedSize = <<>>
                       /\ items[3 - i].selectedExtras # <<>>

\* C15, as claimed: with a storage that refuses every write, addItem,
\* removeItem, updateQuantity and clearCart still change the cart in
\* memory, and none of them raises an error to its caller.
C15_RefusedWriteIsCaught ==
  /\ ~last.raised
  /\ last.op = "addItem" => QuantityOf(items, SearchKey(last.b)) >= 1
  /\ last.op = "clearCart" => items = <<>>

\* ------------------------------------------------ claims on the selections
\* No name stands twice in the list.
Distinct(list) == \A i, j \in 1..Len(list) : i # j => list[i] # list[j]

\* The ingredient rule for a build-your-own entry: exactly 4 distinct
\* names, none of them the sentinel, or the sentinel alone.
IngredientsComplete(list) ==
  \/ Len(list) = 4 /\ Distinct(list) /\ ~Includes(list, sOhneZutat)
  \/ list = <<sOhneZutat>>

\* The first requirement the selections d miss, in the order size, pasta
\* type, sauce or dressing, beer, ingredients; "none" when all are met.
FirstMissing(d) ==
  IF d.item.sizes # <<>> /\ d.selectedSize = <<>> THEN "size"
  ELSE IF d.item.isPasta /\ Falsy(d.selectedPastaType) THEN "pasta type"
  ELSE IF d.item.isSpezialitaet /\ d.item.id \notin {81, 82} /\ Falsy(d.selectedSauce)
       THEN "sauce"
  ELSE IF d.item.isBeerSelection /\ Falsy(d.selectedSauce) THEN "beer"
  ELSE IF d.item.isWunschPizza /\ ~IngredientsComplete(d.selectedIngredients)
       THEN "ingredients"
  ELSE "none"

\* What an attempt does when `missing` is the requirement to report: the
\* popup that asks for it (the sauce popup asks for the beer too), or the
\* handing on to the cart.
ReportOf(missing) ==
  CASE missing = "size" -> "showSizeRequiredPopup"
    [] missing = "pasta type" -> "showPastaTypeRequiredPopup"
    [] missing = "sauce" -> "showSauceRequiredPopup"
    [] missing = "beer" -> "showSauceRequiredPopup"
    [] missing = "ingredients" -> "showIngredientsPopup"
    [] OTHER -> "onAddToOrder"

\* C16, as claimed: every attempt to add is handed on to the cart when all
\* requirements are met, and otherwise reports exactly the first missing
\* requirement in the order size, pasta type, sauce or dressing, beer,
\* ingredients.
C16_FirstMissingIsReported ==
  outcome # "none" => outcome = ReportOf(FirstMissing(dialog))

\* C17, as claimed: for a build-your-own entry whose other requirements
\* are met, an attempt to add is accepted if and only if the ingredients
\* are exactly 4 distinct names without the sentinel, or the sentinel alone.
C17_FourIngredientsOrSentinel ==
  ( /\ outcome # "none"
    /\ dialog.item.isWunschPizza
    /\ FirstMissing([dialog EXCEPT !.selectedIngredients = <<sOhneZutat>>]) = "none" )
  => (outcome = "onAddToOrder" <=> IngredientsComplete(dialog.selectedIngredients))

\* The list a toggle of the name gives, on the card or in the dialog.
Toggled(d, name) ==
  IF d.via = "card" THEN handleIngredientToggleCard(d.selectedIngredients, name)
  ELSE handleIngredientToggle(d.selectedIngredients, name)

\* C18, as claimed: after any sequence of ingredient toggles the selection
\* holds no name twice and never the sentinel next to another name;
\* toggling the sentinel on gives the sentinel alone, and toggling another
\* name while the sentinel is selected takes the sentinel out.
C18_SentinelIsExclusive ==
  LET list == dialog.selectedIngredients
  IN  /\ Distinct(list)
      /\ Includes(list, sOhneZutat) => list = <<sOhneZutat>>
      /\ ~Includes(list, sOhneZutat) => Toggled(dialog, sOhneZutat) = <<sOhneZutat>>
      /\ \A name \in IngredientNames \ {sOhneZutat} :
           ~Includes(Toggled(dialog, name), sOhneZutat)

\* C19, as claimed: an entry flagged specialty is not handed on without a
\* sauce unless its id is 81 or 82; an entry with id 81 or 82 is handed on
\* with no sauce selected when nothing else is missing, and is not asked
\* for a sauce.
C19_SauceUnlessExcluded ==
  /\ ( /\ outcome = "onAddToOrder"
       /\ dialog.item.isSpezialitaet
       /\ dialog.item.id \notin {81, 82} )
     => ~Falsy(dialog.selectedSauce)
  /\ ( /\ outcome # "none"
       /\ dialog.item.isSpezialitaet
       /\ dialog.item.id \in {81, 82}
       /\ ~dialog.item.isBeerSelection )
     => /\ outcome # "showSauceRequiredPopup"
        /\ FirstMissing(dialog) = "none" => outcome = "onAddToOrder"

\* C20, as claimed: computing the key changes none of its inputs.  After
\* addItem, removeItem or updateQuantity every line that stays holds its
\* ingredients and its extras in the order it held them before, and the
\* two lists of the caller are in the order they had before the call.
C20_KeyComputationIsPure ==
  \A b \in Bundles :
    /\ callerLists(items, b).selectedIngredients = b.selectedIngredients
    /\ callerLists(items, b).selectedExtras = b.selectedExtras
    /\ LET r == addItem(items, b)
       IN  \A i \in 1..Len(items) :
             /\ r[i].selectedIngredients = items[i].selectedIngredients
             /\ r[i].selectedExtras = items[i].selectedExtras
    /\ \A q \in 1..MaxTotal :
         LET r == updateQuantity(items, q, b)
         IN  \A i \in 1..Len(items) :
               /\ r[i].selectedIngredients = items[i].selectedIngredients
               /\ r[i].selectedExtras = items[i].selectedExtras
    /\ LET r == removeItem(items, b)
       IN  \A j \in 1..Len(r) :
             \E i \in 1..Len(items) :
               /\ LineKey(items[i]) = LineKey(r[j])
               /\ r[j].selectedIngredients = items[i].selectedIngredients
               /\ r[j].selectedExtras = items[i].selectedExtras

\* -------------------------------------------------------------------- C21
\* The number of times a name is in a list.
Count(list, name) == Cardinality({i \in 1..Len(list) : list[i] = name})

\* The line addItem makes of the dialog's selections in an empty cart.
DialogLine(d) == addItem(<<>>, onAddToOrder(d))[1]

\* The price before the extras: that of the chosen size, or the entry's.
BasePrice(d) == IF d.selectedSize # <<>> THEN d.selectedSize[1].price ELSE d.item.price

\* C21: whatever extras were toggled in the item dialog, its list of
\* selected extras holds no name twice; a toggle of a selected extra takes
\* it out and a toggle of an unselected one puts it in once; and the line
\* the cart makes of the dialog's selections holds no extra twice and is
\* priced with one surcharge for each extra.
C21_ExtrasAreDistinct ==
  dialog.via = "dialog" =>
    /\ Distinct(dialog.selectedExtras)
    /\ \A extra \in ExtraNames :
         LET after == handleExtraToggle(dialog.selectedExtras, extra)
         IN  /\ Count(after, extra) = 1 - Count(dialog.selectedExtras, extra)
             /\ \A other \in ExtraNames \ {extra} :
                  Count(after, other) = Count(dialog.selectedExtras, other)
    /\ dialog.open /\ canAddToOrder(dialog) =>
         /\ Distinct(DialogLine(dialog).selectedExtras)
         /\ NameSet(DialogLine(dialog).selectedExtras) = NameSet(dialog.selectedExtras)
         /\ DialogLine(dialog).menuItem.price
              = BasePrice(dialog)
                + ExtraPrice * Cardinality(NameSet(dialog.selectedExtras))

\* Both extras are selected in the dialog of the build-your-own pizza,
\* which can be added: the line costs the size and two surcharges.
C21_Witness ==
  /\ dialog.via = "dialog" /\ dialog.open
  /\ canAddToOrder(dialog)
  /\ Len(dialog.selectedExtras) = 2
  /\ outcome = "none"
  /\ DialogLine(dialog).menuItem.price = dialog.selectedSize[1].price + 2 * ExtraPrice

KeptAs(before, after, i) ==
  {j \in 1..Len(after) : SortedInPlace(after[j]) = SortedInPlace(before[i])}

\* Every line of `before` whose key is not `key` is in `after` once, with
\* its quantity and its stored price, and `after` has no line more than
\* `before`.
OthersKept(before, keys, after, key) ==
  /\ \A i \in 1..Len(before) :
       keys[i] # key => Cardinality(KeptAs(before, after, i)) = 1
  /\ Len(after) <= Len(before)

\* C23: removeItem and updateQuantity change nothing but the line whose key
\* is the key of the arguments: every other line keeps its quantity and
\* its stored price; and an addItem that merges changes the quantity of
\* the line it matched only.
C23_OnlyTheMatchedLine ==
  LET keys == KeysOf(items)
  IN  \A b \in Bundles :
        LET key == SearchKey(b)
            hit == \E i \in 1..Len(items) : keys[i] = key
        IN  /\ OthersKept(items, keys, removeItem(items, b), key)
            /\ \A q \in Quantities :
                 OthersKept(items, keys, updateQuantity(items, q, b), key)
            /\ hit =>
                 LET merged == addItem(items, b)
                 IN  /\ OthersKept(items, keys, merged, key)
                     /\ Len(merged) = Len(items)
                     /\ QuantityOf(merged, key) = QuantityOf(items, key) + 1

\* Of two lines one was removed, or had its quantity set, and the other
\* is still there.
C23_Witness ==
  /\ last.op \in {"removeItem", "updateQuantity"}
  /\ last.hit
  /\ Len(items) >= 1
  /\ \E b \in Bundles :
       /\ findItemIndex(items, b) > 0
       /\ Len(removeItem(items, b)) = Len(items) - 1
       /\ Len(items) = 2

\* -------------------------------------------------------------------- C25
\* C25: whenever the item dialog enables its add button, the price it
\* displays is the unit price of the line addItem creates for the
\* selections the dialog hands on.
C25_DisplayedPriceIsStored ==
  dialog.via = "dialog" /\ dialog.open /\ canAddToOrder(dialog) =>
    /\ getCurrentPrice(dialog) = DialogLine(dialog).menuItem.price
    /\ getCurrentPrice(dialog) = NewPrice(onAddToOrder(dialog))

\* The build-your-own pizza in its second size with an extra can be added
\* and is displayed at the price of that size and one surcharge.
C25_Witness ==
  /\ dialog.via = "dialog" /\ dialog.open /\ canAddToOrder(dialog)
  /\ Len(dialog.item.sizes) = 2
  /\ dialog.selectedSize = <<dialog.item.sizes[2]>>
  /\ Len(dialog.selectedExtras) = 1
  /\ getCurrentPrice(dialog) = 1400
  /\ DialogLine(dialog).menuItem.price = 1400

\* -------------------------------------------------------------------- C29
\* The titles that name the requirement a popup of handleAddToOrder asks
\* for; the one popup for the sauce serves a specialty and a beer.
TooltipsOf(report) ==
  CASE report = "showSizeRequiredPopup" -> {"Bitte waehlen Sie eine Groesse"}
    [] report = "showPastaTypeRequiredPopup" -> {"Bitte waehlen Sie eine Nudelsorte"}
    [] report = "showSauceRequiredPopup" ->
         {"Bitte waehlen Sie eine Sosse", "Bitte waehlen Sie eine Biersorte"}
    [] report = "showIngredientsPopup" -> {"Bitte waehlen Sie mindestens eine Zutat"}
    [] OTHER -> {"Zum Warenkorb hinzufuegen"}

StoredKeys(stored) == {LineKey(hydrate(stored)[i]) : i \in 1..Len(hydrate(stored))}

\* C24: with two tabs on one storage, what is stored is the cart in the
\* memory of the tab that called an operation last, whatever the other
\* tab holds: a line that only the other tab has in memory is not in the
\* storage, and a load of either tab gives it the last writer's cart.
C24_LastWriteWins ==
  writer # 0 =>
    LET mine == TabItems(writer)
        other == TabItems(3 - writer)
    IN  /\ storage = <<stringify(mine)>>
        /\ StoredKeys(storage) = {LineKey(mine[i]) : i \in 1..Len(mine)}
        /\ \A i \in 1..Len(other) :
             (\A j \in 1..Len(mine) : LineKey(mine[j]) # LineKey(other[i]))
               => LineKey(other[i]) \notin StoredKeys(storage)
        /\ SameLines(hydrate(storage), mine)

\* Tab 1 holds a line that tab 2 does not, tab 2 called the last operation
\* and holds a line itself: the storage has tab 2's line and not tab 1's.
C24_Witness ==
  /\ writer = 2
  /\ last.op \in {"addItem", "updateQuantity"}
  /\ Len(items) = 1 /\ Len(peer) = 1
  /\ LineKey(items[1]) # LineKey(peer[1])
  /\ StoredKeys(storage) = {LineKey(peer[1])}

\* -------------------------------------------------------------------- C26
\* The steps Next goes through from `step` when every selection is made,
\* `step` first; at most n presses.
RECURSIVE StepsFrom(_, _, _)
StepsFrom(step, item, n) ==
  IF n = 0 \/ getNextStep(step, item) = <<>> THEN <<step>>
  ELSE <<step>> \o StepsFrom(getNextStep(step, item)[1], item, n - 1)

\* The steps in which an entry has a selection to make.
RequiredSteps(item) ==
  {step \in ConfigurationStep :
     \/ step = "size" /\ item.sizes # <<>>
     \/ step = "pasta" /\ item.isPasta
     \/ step = "sauce" /\ needsSauceSelection(item)
     \/ step = "ingredients" /\ item.isWunschPizza}

\* C26, as claimed: in the step-by-step dialog, whatever the flags of the
\* entry, the summary (the one step with the add button) is reached only
\* with a complete bundle: a size for an entry with sizes, a pasta type for
\* pasta, a sauce, dressing or beer where one is required and a valid
\* ingredient selection for a build-your-own entry; and the steps from the
\* first to the summary leave out no step that has a required selection.
C26_SummaryOnlyWhenComplete ==
  dialog.via = "steps" =>
    /\ dialog.open /\ currentStep = "summary" => FirstMissing(dialog) = "none"
    /\ outcome = "onAddToOrder" => FirstMissing(dialog) = "none"
    /\ RequiredSteps(dialog.item)
         \subseteq NameSet(StepsFrom(initialStep(dialog.item), dialog.item, 5))

\* -------------------------------------------------------------------- C27
\* C27, as claimed: in the step-by-step dialog Back undoes Next: when Next
\* moves the dialog from its step to another, Back from that one returns
\* to the first; and Back on the step the dialog opened with leaves the
\* step as it is.
C27_BackUndoesNext ==
  dialog.via = "steps" /\ dialog.open =>
    /\ handleNext(currentStep, dialog) # currentStep
         => handleBack(handleNext(currentStep, dialog), dialog.item) = currentStep
    /\ currentStep = initialStep(dialog.item)
         => handleBack(currentStep, dialog.item) = currentStep

\* -------------------------------------------------------------------- C28
\* The place of a step in the order of the steps.
Rank(step) ==
  CASE step = "size" -> 1 [] step = "pasta" -> 2 [] step = "sauce" -> 3
    [] step = "ingredients" -> 4 [] step = "extras" -> 5 [] OTHER -> 6

\* C28: in the step-by-step dialog, while the selection of the step is not
\* made Next leaves the step as it is; when it is made Next moves to a
\* later step, so that no step is visited twice; and from the step the
\* dialog opened with, as from the step it is on, Next reaches the
\* summary within five presses, whatever the flags of the entry.
C28_NextReachesSummary ==
  dialog.via = "steps" /\ dialog.open =>
    /\ ~canProceedToNext(currentStep, dialog)
         => handleNext(currentStep, dialog) = currentStep
    /\ canProceedToNext(currentStep, dialog) /\ currentStep # "summary"
         => Rank(handleNext(currentStep, dialog)) > Rank(currentStep)
    /\ \A from \in {initialStep(dialog.item), currentStep} :
         LET path == StepsFrom(from, dialog.item, 5)
         IN  /\ path[Len(path)] = "summary"
             /\ Distinct(path)

\* The summary of an entry that has sizes, is pasta, a specialty in need
\* of a sauce and a build-your-own pizza: Next went through all six steps.
C28_Witness ==
  /\ dialog.via = "steps" /\ dialog.open
  /\ currentStep = "summary"
  /\ StepsFrom(initialStep(dialog.item), dialog.item, 5)
       = <<"size", "pasta", "sauce", "ingredients", "extras", "summary">>
  /\ FirstMissing(dialog) = "none"
  /\ Len(dialog.selectedIngredients) = 4

\* -------------------------------------------------------------------- C30
\* The cart after n presses of the minus button of the line of key `key`,
\* as long as there is such a line.
RECURSIVE MinusTimes(_, _, _)
MinusTimes(lines, key, n) ==
  IF n = 0 \/ LinesWithKey(lines, key) = {} THEN lines
  ELSE MinusTimes(minusPressed(lines, CHOOSE i \in LinesWithKey(lines, key) : TRUE),
                  key, n - 1)

\* C30: in the cart view the minus button of a line of quantity q sets the
\* quantity to q - 1 when q > 1 and removes the line when q = 1; so the
\* line is there after fewer than q presses and gone after q; the other
\* lines keep their quantity and stored price; and no line is held with
\* quantity 0.
C30_MinusCountsDownToRemoval ==
  /\ \A i \in 1..Len(items) : items[i].quantity >= 1
  /\ last.op = "minus" =>
       QuantityOf(items, SearchKey(last.b)) = last.quantity - 1
  /\ LET keys == KeysOf(items)
     IN  \A i \in 1..Len(items) :
           LET q == items[i].quantity
               pressed == minusPressed(items, i)
           IN  /\ q > 1 => /\ Len(pressed) = Len(items)
                            /\ QuantityOf(pressed, keys[i]) = q - 1
               /\ q = 1 => /\ Len(pressed) = Len(items) - 1
                            /\ LinesWithKey(pressed, keys[i]) = {}
               /\ OthersKept(items, keys, pressed, keys[i])
               /\ \A n \in 0..(q - 1) :
                    QuantityOf(MinusTimes(items, keys[i], n), keys[i]) = q - n
               /\ LinesWithKey(MinusTimes(items, keys[i], q), keys[i]) = {}
               /\ OthersKept(items, keys, MinusTimes(items, keys[i], q), keys[i])
               /\ \A j \in 1..Len(pressed) : pressed[j].quantity >= 1

\* The minus button was pressed on a line of quantity 1 next to another
\* line: the line is gone and the other one is still there.
C30_Witness ==
  /\ last.op = "minus"
  /\ last.quantity = 1
  /\ Len(items) = 1
  /\ LineKey(items[1]) # SearchKey(last.b)
  /\ items[1].quantity = 2

====
